---- MODULE Spec2Model ----
(***************************************************************************)
(* Model of mail-receiver: the fleet supervisor (main, Receiver.Start),    *)
(* the per-account monitor (runAccountReceiver, run, handleError,          *)
(* fetchAndProcessMessages) and the change-notification primitive          *)
(* (IdleWithFallback, idleMode, MonitorWithIDLE, runIDLE).                 *)
(***************************************************************************)
EXTENDS Integers, Sequences, FiniteSets, TLC

\* ---------------------------------------------------------------- bounds
\* Number of messages a mailbox can hold in the model (UIDs 1..MaxMsgs).
MaxMsgs == 2

\* Number of server updates the model lets wait in client.Updates.
MaxUpdates == 1
MaxLimit == 2

\* ---------------------------------------------------- program constants
\* receiver.go:114  maxRetries: 3
MaxRetries == 3
\* receiver.go:206  FetchMessages(folder, 50, false)
FetchLimit == 50

\* The account names a configuration may hold.
Accounts == {"a1", "a2"}
\* A configured delivery endpoint, and the empty one.
URL == "url"
NoURL == ""

VARIABLES
  \* ---- process (main.go)
  mainPc,        \* position of main: "LoadConfig", "Start", "sigWait"
  exitCode,      \* the code passed to os.Exit / log.Fatalf (0 while the process runs)
  exitBy,        \* who ended the process: "none" (it runs), "config", "start", "signal" or an account
  cfgAccounts,   \* cfg.Accounts: the configured account names
  sendPush,      \* AccountConfig.SendPush per account
  idleCapable,   \* the account's server implements the IDLE command
  fetchLimit,    \* the limit argument of FetchMessages (receiver.go:206)
  \* ---- AccountReceiver (receiver.go:84-93) and its goroutine
  pc,            \* position of the account's goroutine
  retries,       \* AccountReceiver.retries
  firstConnect,  \* AccountReceiver.firstConnect
  listCalls,     \* number of ListFolders calls the account made
  runErr,        \* the error run() returns: "none", "connect", "login", "wait"
  phase,         \* which fetchAndProcessMessages call of run() is active: 1 (line 185) or 2 (line 198)
  \* ---- imap.Client
  conn,          \* Client.client: "nil", "open", "closed"
  supportsIDLE,  \* Client.supportsIDLE
  openConns,     \* number of dialled connections of the account not yet logged out
  \* ---- the mailbox on the server
  msgCount,      \* messages 1..msgCount exist in the folder
  seen,          \* the messages carrying the \Seen flag
  \* ---- fetchAndProcessMessages
  batch,         \* the messages still to process, in arrival order
  pushRes,       \* result of the last Push: <<success, err>>
  delivered,     \* messages whose Push returned success in this call
  marked,        \* messages for which MarkAsRead was issued in this call
  opErr,         \* a fetch/parse/push/mark failure happened in this call (or the ListFolders before it failed)
  attempted,     \* messages for which Push was called in this call
  pending,       \* unread messages whose delivery failed since the last FetchMessages
  \* ---- IdleWithFallback and its goroutines
  wpc,           \* goroutine of IdleWithFallback (idleMode): "none", "recvInner", "sendErr", "sendNil", "closed"
  mpc,           \* goroutine of MonitorWithIDLE (runIDLE)
  ipc,           \* goroutine running idleClient.Idle: "none", "running", "done", "joined"
  idleRes,       \* value in idleDone: "none", "nil", "err"
  idleStop,      \* idleStop is closed
  updates,       \* number of updates buffered in client.Updates
  sends,         \* values sent on the IdleWithFallback channel by this call
  reads,         \* receives run() made on the channel of this call
  lastMessageCount, \* pollMode's lastMessageCount
  lastWait,      \* how the last wait ended: "none", "timeout", "update", "idleErr", "idleEnd", "selectErr", "pollErr", "pollChange"
  \* ---- handleError
  alertState,    \* alert Push of handleError: "none", "inflight", "returned"
  alertCalls     \* number of alert Push calls made by the account

procVars == <<mainPc, exitCode, exitBy, cfgAccounts, sendPush, idleCapable, fetchLimit>>
acctVars == <<pc, retries, firstConnect, listCalls, runErr, phase>>
connVars == <<conn, supportsIDLE, openConns>>
mboxVars == <<msgCount, seen>>
fetchVars == <<batch, pushRes, delivered, marked, opErr, attempted, pending>>
waitVars == <<wpc, mpc, ipc, idleRes, idleStop, updates, sends, reads, lastMessageCount, lastWait>>
alertVars == <<alertState, alertCalls>>
vars == <<procVars, acctVars, connVars, mboxVars, fetchVars, waitVars, alertVars>>

\* The process has not exited.
Alive == exitBy = "none"

\* State right after process start, for a given configuration.
InitWith(accs, urls, caps, counts, limits) ==
  /\ mainPc = "LoadConfig"
  /\ exitCode = 0
  /\ exitBy = "none"
  /\ cfgAccounts \in accs
  /\ sendPush \in [Accounts -> urls]
  /\ idleCapable \in {f \in [Accounts -> caps] : \A a \in Accounts \ cfgAccounts : f[a]}
  /\ fetchLimit \in limits
  /\ pc = [a \in Accounts |-> "off"]
  /\ retries = [a \in Accounts |-> 0]
  /\ firstConnect = [a \in Accounts |-> TRUE]
  /\ listCalls = [a \in Accounts |-> 0]
  /\ runErr = [a \in Accounts |-> "none"]
  /\ phase = [a \in Accounts |-> 1]
  /\ conn = [a \in Accounts |-> "nil"]
  /\ supportsIDLE = [a \in Accounts |-> FALSE]
  /\ openConns = [a \in Accounts |-> 0]
  /\ msgCount \in [Accounts -> counts]
  /\ seen = [a \in Accounts |-> {}]
  /\ batch = [a \in Accounts |-> <<>>]
  /\ pushRes = [a \in Accounts |-> <<FALSE, FALSE>>]
  /\ delivered = [a \in Accounts |-> {}]
  /\ marked = [a \in Accounts |-> {}]
  /\ opErr = [a \in Accounts |-> FALSE]
  /\ attempted = [a \in Accounts |-> {}]
  /\ pending = [a \in Accounts |-> {}]
  /\ wpc = [a \in Accounts |-> "none"]
  /\ mpc = [a \in Accounts |-> "none"]
  /\ ipc = [a \in Accounts |-> "none"]
  /\ idleRes = [a \in Accounts |-> "none"]
  /\ idleStop = [a \in Accounts |-> FALSE]
  /\ updates = [a \in Accounts |-> 0]
  /\ sends = [a \in Accounts |-> 0]
  /\ reads = [a \in Accounts |-> 0]
  /\ lastMessageCount = [a \in Accounts |-> 0]
  /\ lastWait = [a \in Accounts |-> "none"]
  /\ alertState = [a \in Accounts |-> "none"]
  /\ alertCalls = [a \in Accounts |-> 0]

\* ------------------------------------------------------------- main.go
\* os.Exit / log.Fatalf: the process ends with the given code.
osExit(code, who) ==
  /\ exitCode' = code
  /\ exitBy' = who

\* main, lines 18-21: config.LoadConfig fails -> log.Fatalf (exit 1).
LoadConfig ==
  /\ Alive /\ mainPc = "LoadConfig"
  /\ \E ok \in BOOLEAN :
       IF ok THEN /\ mainPc' = "Start"
                  /\ UNCHANGED <<exitCode, exitBy>>
             ELSE /\ osExit(1, "config")
                  /\ UNCHANGED mainPc
  /\ UNCHANGED <<cfgAccounts, sendPush, idleCapable, fetchLimit, acctVars, connVars, mboxVars, fetchVars, waitVars, alertVars>>

\* Receiver.Start: one goroutine per configured account; an error (exit 1
\* through log.Fatalf in main) when no account is configured.
Start ==
  /\ Alive /\ mainPc = "Start"
  /\ pc' = [a \in Accounts |-> IF a \in cfgAccounts THEN "Connect" ELSE pc[a]]
  /\ IF cfgAccounts = {}
       THEN /\ osExit(1, "start")
            /\ UNCHANGED mainPc
       ELSE /\ mainPc' = "sigWait"
            /\ UNCHANGED <<exitCode, exitBy>>
  /\ UNCHANGED <<cfgAccounts, sendPush, idleCapable, fetchLimit, retries, firstConnect, listCalls, runErr, phase,
                 connVars, mboxVars, fetchVars, waitVars, alertVars>>

\* main, lines 41-43: SIGINT/SIGTERM received -> os.Exit(0).
Interrupt ==
  /\ Alive /\ mainPc = "sigWait"
  /\ osExit(0, "signal")
  /\ UNCHANGED <<mainPc, cfgAccounts, sendPush, idleCapable, fetchLimit, acctVars, connVars, mboxVars, fetchVars, waitVars, alertVars>>

\* ------------------------------------------------- imap/client.go, push
\* IdleClient.CheckIDLESupport: always reports support.
CheckIDLESupport == TRUE

\* Pusher.Push(title, msg) as <<success, err # nil>>; http is the outcome of
\* PostForm: "err" (transport error or timeout), "200", or "other" status.
PushNoUrlCheck(url, http) ==
  IF http = "err" THEN <<FALSE, TRUE>>
  ELSE IF http = "200" THEN <<TRUE, FALSE>>
  ELSE <<FALSE, FALSE>>
Push(url, http) ==
  IF url = NoURL THEN <<FALSE, FALSE>>
  ELSE IF http = "err" THEN <<FALSE, TRUE>>
  ELSE IF http = "200" THEN <<TRUE, FALSE>>
  ELSE <<FALSE, FALSE>>

HttpOutcomes == {"err", "200", "other"}

\* ------------------------------------------- receiver.go: run, lines 150-163
\* Where run() continues when Login fails: the Logout deferred at line 155.
LoginErrReturnSkipsLogout == "handleError"
LoginErrReturn == "Logout"

\* Value of ar.retries after a successful login (line 163).
RetriesAfterLoginKept(r) == r
RetriesAfterLogin(r) == 0

\* Client.Connect (client.go:59-81) called at run() line 152.
Connect(a) ==
  /\ Alive /\ pc[a] = "Connect"
  /\ \E ok \in BOOLEAN :
       IF ok
         THEN /\ conn' = [conn EXCEPT ![a] = "open"]
              /\ openConns' = [openConns EXCEPT ![a] = @ + 1]
              /\ supportsIDLE' = [supportsIDLE EXCEPT ![a] = CheckIDLESupport]
              /\ pc' = [pc EXCEPT ![a] = "Login"]
              /\ runErr' = [runErr EXCEPT ![a] = "none"]
         ELSE /\ conn' = [conn EXCEPT ![a] = "nil"]
              /\ UNCHANGED <<openConns, supportsIDLE>>
              /\ pc' = [pc EXCEPT ![a] = "handleError"]
              /\ runErr' = [runErr EXCEPT ![a] = "connect"]
  /\ lastWait' = [lastWait EXCEPT ![a] = "none"]
  /\ UNCHANGED <<procVars, retries, firstConnect, listCalls, phase, mboxVars, fetchVars,
                 wpc, mpc, ipc, idleRes, idleStop, updates, sends, reads, lastMessageCount, alertVars>>

\* Client.Login (client.go:84-89) called at run() line 157; on success the
\* retry counter is reset (line 163) and the first connection lists folders.
Login(a) ==
  /\ Alive /\ pc[a] = "Login"
  /\ \E ok \in BOOLEAN :
       IF ok
         THEN /\ retries' = [retries EXCEPT ![a] = RetriesAfterLogin(@)]
              /\ pc' = [pc EXCEPT ![a] = IF firstConnect[a] THEN "ListFolders" ELSE "Fetch"]
              /\ phase' = [phase EXCEPT ![a] = 1]
              /\ UNCHANGED runErr
         ELSE /\ runErr' = [runErr EXCEPT ![a] = "login"]
              /\ pc' = [pc EXCEPT ![a] = LoginErrReturn]
              /\ UNCHANGED <<retries, phase>>
  /\ UNCHANGED <<procVars, firstConnect, listCalls, connVars, mboxVars, fetchVars, waitVars, alertVars>>

\* run() lines 166-176: the first connection lists the folders; an error is
\* logged only.  (config.LoadConfig defaults Folders to INBOX, so the check
\* at line 179 never fails.)  firstConnect is cleared before the call.
FirstConnectKept == TRUE
FirstConnectAfterList == FALSE

ListFolders(a) ==
  /\ Alive /\ pc[a] = "ListFolders"
  /\ firstConnect' = [firstConnect EXCEPT ![a] = FirstConnectAfterList]
  /\ listCalls' = [listCalls EXCEPT ![a] = @ + 1]
  /\ \E ok \in BOOLEAN : opErr' = [opErr EXCEPT ![a] = ~ok]
  /\ pc' = [pc EXCEPT ![a] = "Fetch"]
  /\ UNCHANGED <<procVars, retries, runErr, phase, connVars, mboxVars,
                 batch, pushRes, delivered, marked, attempted, pending, waitVars, alertVars>>

\* The deferred ar.client.Logout() (run() line 155, client.go:310-315), then
\* run() returns runErr to runAccountReceiver (lines 142-146).
Logout(a) ==
  /\ Alive /\ pc[a] = "Logout"
  /\ IF conn[a] = "open"
       THEN /\ conn' = [conn EXCEPT ![a] = "closed"]
            /\ openConns' = [openConns EXCEPT ![a] = @ - 1]
       ELSE UNCHANGED <<conn, openConns>>
  /\ pc' = [pc EXCEPT ![a] = IF runErr[a] = "none" THEN "Connect" ELSE "handleError"]
  /\ UNCHANGED <<procVars, retries, firstConnect, listCalls, runErr, phase, supportsIDLE,
                 mboxVars, fetchVars, waitVars, alertVars>>

\* ------------------------------------- receiver.go: handleError, 267-288
\* The test of line 270.
reachedMaxStrict(r) == r > MaxRetries
reachedMax(r) == r >= MaxRetries

\* Where handleError is after it called the alert Push (line 278): the call
\* blocks until the request completed or timed out.
AlertCallPcAsync == "osExit"
AlertCallPc == "alertPush"

\* Where handleError goes below the limit: the sleep of line 287.
BackoffSkipped == "Connect"
BackoffPc == "Sleep"

handleError(a) ==
  /\ Alive /\ pc[a] = "handleError"
  /\ retries' = [retries EXCEPT ![a] = @ + 1]
  /\ IF reachedMax(retries[a] + 1)
       THEN /\ alertState' = [alertState EXCEPT ![a] = "inflight"]
            /\ alertCalls' = [alertCalls EXCEPT ![a] = @ + 1]
            /\ pc' = [pc EXCEPT ![a] = AlertCallPc]
       ELSE /\ pc' = [pc EXCEPT ![a] = BackoffPc]
            /\ UNCHANGED alertVars
  /\ UNCHANGED <<procVars, firstConnect, listCalls, runErr, phase, connVars, mboxVars, fetchVars, waitVars>>

\* The alert Push of line 278 returns (delivered, refused, failed or timed
\* out: the result is discarded).
AlertPushReturn(a) ==
  /\ Alive /\ alertState[a] = "inflight"
  /\ \E http \in HttpOutcomes :
       pushRes' = [pushRes EXCEPT ![a] = Push(sendPush[a], http)]
  /\ alertState' = [alertState EXCEPT ![a] = "returned"]
  /\ pc' = [pc EXCEPT ![a] = IF @ = "alertPush" THEN "osExit" ELSE @]
  /\ UNCHANGED <<procVars, retries, firstConnect, listCalls, runErr, phase, connVars, mboxVars,
                 batch, delivered, marked, opErr, attempted, pending, waitVars, alertCalls>>

\* os.Exit(1) of line 281.
Exit(a) ==
  /\ Alive /\ pc[a] = "osExit"
  /\ osExit(1, a)
  /\ UNCHANGED <<mainPc, cfgAccounts, sendPush, idleCapable, fetchLimit, acctVars, connVars, mboxVars, fetchVars, waitVars, alertVars>>

\* time.Sleep(ar.retryDelay) of line 287 ends; runAccountReceiver loops.
Sleep(a) ==
  /\ Alive /\ pc[a] = "Sleep"
  /\ pc' = [pc EXCEPT ![a] = "Connect"]
  /\ UNCHANGED <<procVars, retries, firstConnect, listCalls, runErr, phase, connVars, mboxVars, fetchVars, waitVars, alertVars>>

\* --------------------------------- imap/client.go: FetchMessages, 122-237
RECURSIVE UnseenIn(_, _, _)
\* The messages lo..hi without the \Seen flag, in sequence-number order.
UnseenIn(lo, hi, s) ==
  IF lo > hi THEN <<>>
  ELSE (IF lo \in s THEN <<>> ELSE <<lo>>) \o UnseenIn(lo + 1, hi, s)

\* q[len(q)-k:] when q is longer than k (lines 158-160 and 231-233).
LastNUncut(q, k) == q
LastN(q, k) == IF k > 0 /\ Len(q) > k THEN SubSeq(q, Len(q) - k + 1, Len(q)) ELSE q

\* FetchMessages(folder, limit, false) on a folder holding messages 1..n of
\* which s are seen.  selOK, searchOK, fetchOK: whether Select, Search and
\* Fetch succeed.  BODY.PEEK[] leaves the flags alone.
FetchMessages(n, s, limit, selOK, searchOK, fetchOK) ==
  IF ~selOK THEN [err |-> TRUE, msgs |-> <<>>]
  ELSE IF n = 0 THEN [err |-> FALSE, msgs |-> <<>>]
  ELSE IF searchOK
    THEN LET ids == UnseenIn(1, n, s) IN
         IF Len(ids) = 0 THEN [err |-> FALSE, msgs |-> <<>>]
         ELSE IF ~fetchOK THEN [err |-> TRUE, msgs |-> <<>>]
         ELSE [err |-> FALSE, msgs |-> LastN(ids, limit)]
    ELSE LET lo == IF limit > 0 /\ n > limit THEN n - limit + 1 ELSE 1 IN
         IF ~fetchOK THEN [err |-> TRUE, msgs |-> <<>>]
         ELSE [err |-> FALSE, msgs |-> LastN(UnseenIn(lo, n, s), limit)]

\* ------------------- receiver.go: fetchAndProcessMessages, lines 203-264
FetchPcs == {"Fetch", "Parse", "Push", "MarkAsRead"}

\* Where run() continues after fetchAndProcessMessages returned: line 188
\* after the call of line 185, the return of line 199 (through the deferred
\* Logout) after the call of line 198.
AfterFetchStaysConnected(ph) == "IdleWithFallback"
AfterFetch(ph) == IF ph = 1 THEN "IdleWithFallback" ELSE "Logout"

\* What a failed FetchMessages makes run() return: nothing (lines 210-213).
FetchErrEscapes == "fetch"
FetchErrReturn == "none"

\* Lines 249-251: MarkAsRead is called iff Push returned (true, nil).
shouldMarkNoErr(res) == ~res[2]
shouldMarkNever(res) == FALSE
shouldMark(res) == ~res[2] /\ res[1]

\* The loop of line 222 moves on to the next message, or the call returns.
NextMessageAbort(a) ==
  IF pc[a] = "MarkAsRead"
    THEN /\ batch' = [batch EXCEPT ![a] = Tail(@)]
         /\ pc' = [pc EXCEPT ![a] = IF Len(batch[a]) > 1 THEN "Parse" ELSE AfterFetch(phase[a])]
    ELSE /\ batch' = [batch EXCEPT ![a] = <<>>]
         /\ pc' = [pc EXCEPT ![a] = AfterFetch(phase[a])]
NextMessageReturns(a) ==
  /\ batch' = [batch EXCEPT ![a] = Tail(@)]
  /\ pc' = [pc EXCEPT ![a] = AfterFetch(phase[a])]
NextMessage(a) ==
  /\ batch' = [batch EXCEPT ![a] = Tail(@)]
  /\ pc' = [pc EXCEPT ![a] = IF Len(batch[a]) > 1 THEN "Parse" ELSE AfterFetch(phase[a])]

\* Lines 204-219: the call of FetchMessages.
Fetch(a) ==
  /\ Alive /\ pc[a] = "Fetch"
  /\ \E selOK \in BOOLEAN, searchOK \in BOOLEAN, fetchOK \in BOOLEAN :
       LET r == FetchMessages(msgCount[a], seen[a], fetchLimit, selOK, searchOK, fetchOK) IN
       /\ batch' = [batch EXCEPT ![a] = r.msgs]
       /\ opErr' = [opErr EXCEPT ![a] = r.err]
       /\ runErr' = [runErr EXCEPT ![a] = IF r.err THEN FetchErrReturn ELSE "none"]
       /\ pc' = [pc EXCEPT ![a] = IF Len(r.msgs) > 0 THEN "Parse" ELSE AfterFetch(phase[a])]
       /\ pending' = [pending EXCEPT ![a] = IF r.err THEN @ ELSE {}]
  /\ delivered' = [delivered EXCEPT ![a] = {}]
  /\ marked' = [marked EXCEPT ![a] = {}]
  /\ attempted' = [attempted EXCEPT ![a] = {}]
  /\ UNCHANGED <<procVars, retries, firstConnect, listCalls, phase, connVars, mboxVars, pushRes, waitVars, alertVars>>

\* Lines 223-227: imap.ParseMessage, succeeding or not as oks allows; a
\* failure skips the message.
ParseMessageWith(a, oks) ==
  /\ Alive /\ pc[a] = "Parse"
  /\ \E ok \in oks :
       IF ok THEN /\ pc' = [pc EXCEPT ![a] = "Push"]
                  /\ UNCHANGED <<batch, opErr>>
             ELSE /\ NextMessage(a)
                  /\ opErr' = [opErr EXCEPT ![a] = TRUE]
  /\ UNCHANGED <<procVars, retries, firstConnect, listCalls, runErr, phase, connVars, mboxVars,
                 pushRes, delivered, marked, attempted, pending, waitVars, alertVars>>

ParseMessage(a) == ParseMessageWith(a, BOOLEAN)

\* Lines 248-255: ar.pusher.Push(subject, content) and the test of its
\* result, the delivery endpoint answering with one of the given outcomes.
PushMessageWith(a, outcomes) ==
  /\ Alive /\ pc[a] = "Push"
  /\ \E http \in outcomes :
       LET res == Push(sendPush[a], http)
           m == Head(batch[a]) IN
       /\ pushRes' = [pushRes EXCEPT ![a] = res]
       /\ delivered' = [delivered EXCEPT ![a] = IF res[1] THEN @ \cup {m} ELSE @]
       /\ opErr' = [opErr EXCEPT ![a] = @ \/ (sendPush[a] # NoURL /\ ~res[1])]
       /\ attempted' = [attempted EXCEPT ![a] = @ \cup {m}]
       /\ pending' = [pending EXCEPT ![a] =
                        IF sendPush[a] # NoURL /\ ~res[1] THEN @ \cup {m} ELSE @]
       /\ IF shouldMark(res)
            THEN /\ pc' = [pc EXCEPT ![a] = "MarkAsRead"]
                 /\ UNCHANGED batch
            ELSE NextMessage(a)
  /\ UNCHANGED <<procVars, retries, firstConnect, listCalls, runErr, phase, connVars, mboxVars,
                 marked, waitVars, alertVars>>

PushMessage(a) == PushMessageWith(a, HttpOutcomes)

\* Line 253: ar.client.MarkAsRead(email.UID) (client.go:318-334); its error
\* is dropped.
MarkAsRead(a) ==
  /\ Alive /\ pc[a] = "MarkAsRead"
  /\ LET m == Head(batch[a]) IN
     /\ marked' = [marked EXCEPT ![a] = @ \cup {m}]
     /\ \E ok \in BOOLEAN :
          /\ seen' = [seen EXCEPT ![a] = IF ok THEN @ \cup {m} ELSE @]
          /\ opErr' = [opErr EXCEPT ![a] = @ \/ ~ok]
  /\ NextMessage(a)
  /\ UNCHANGED <<procVars, retries, firstConnect, listCalls, runErr, phase, connVars, msgCount,
                 pushRes, delivered, attempted, pending, waitVars, alertVars>>

\* A new message arrives in the watched folder, which holds fewer than cap.
NewMailUpTo(a, cap) ==
  /\ Alive /\ a \in cfgAccounts /\ mainPc = "sigWait"
  /\ msgCount[a] < cap
  /\ msgCount' = [msgCount EXCEPT ![a] = @ + 1]
  /\ UNCHANGED <<procVars, acctVars, connVars, seen, fetchVars, waitVars, alertVars>>

NewMail(a) == NewMailUpTo(a, MaxMsgs)

\* ------------------ imap/client.go: IdleWithFallback, idleMode, pollMode
\* idleMode lines 266-278 after the receive from MonitorWithIDLE's channel:
\* a closed channel is reported as an error, an update as nil; anything else
\* returns without a send (the deferred close of line 244 follows).
IdleModeDropsClosed(ok, hasUpdate) ==
  IF ~ok THEN "closed" ELSE IF hasUpdate THEN "sendNil" ELSE "closed"
IdleModeAfterRecv(ok, hasUpdate) ==
  IF ~ok THEN "sendErr" ELSE IF hasUpdate THEN "sendNil" ELSE "closed"

\* run() lines 188-189: IdleWithFallback makes the channel and starts its
\* goroutine, which enters idleMode (and there MonitorWithIDLE starts the
\* monitoring goroutine) or pollMode.
IdleWithFallback(a) ==
  /\ Alive /\ pc[a] = "IdleWithFallback"
  /\ pc' = [pc EXCEPT ![a] = "recv"]
  /\ IF supportsIDLE[a] /\ conn[a] # "nil"
       THEN /\ wpc' = [wpc EXCEPT ![a] = "recvInner"]
            /\ mpc' = [mpc EXCEPT ![a] = "Select"]
       ELSE /\ wpc' = [wpc EXCEPT ![a] = "poll"]
            /\ mpc' = [mpc EXCEPT ![a] = "none"]
  /\ ipc' = [ipc EXCEPT ![a] = "none"]
  /\ idleRes' = [idleRes EXCEPT ![a] = "none"]
  /\ idleStop' = [idleStop EXCEPT ![a] = FALSE]
  /\ updates' = [updates EXCEPT ![a] = 0]
  /\ sends' = [sends EXCEPT ![a] = 0]
  /\ reads' = [reads EXCEPT ![a] = 0]
  /\ lastWait' = [lastWait EXCEPT ![a] = "none"]
  /\ UNCHANGED <<procVars, retries, firstConnect, listCalls, runErr, phase, connVars, mboxVars,
                 fetchVars, lastMessageCount, alertVars>>

\* imap/idle.go MonitorWithIDLE lines 62-66: Select the folder; on failure
\* return (closing the channel), else enter runIDLE, which starts the
\* goroutine calling Idle (lines 100-107) and the timer (line 110).
MonitorWithIDLE(a) ==
  /\ Alive /\ mpc[a] = "Select"
  /\ \E ok \in BOOLEAN :
       IF ok THEN /\ mpc' = [mpc EXCEPT ![a] = "runIDLE"]
                  /\ ipc' = [ipc EXCEPT ![a] = "running"]
                  /\ UNCHANGED lastWait
             ELSE /\ mpc' = [mpc EXCEPT ![a] = "closed"]
                  /\ lastWait' = [lastWait EXCEPT ![a] = "selectErr"]
                  /\ UNCHANGED ipc
  /\ UNCHANGED <<procVars, acctVars, connVars, mboxVars, fetchVars, wpc, idleRes,
                 idleStop, updates, sends, reads, lastMessageCount, alertVars>>

\* What idleClient.Idle can return: a server without the IDLE command
\* rejects it.
IdleResults(capable) == IF capable THEN {"nil", "err"} ELSE {"err"}

\* idle.go line 106: idleClient.Idle(idleStop) returns, with an error (the
\* connection broke, or the command was rejected) or nil, and its result is
\* put in idleDone (buffered).
IdleReturns(a) ==
  /\ Alive /\ ipc[a] = "running"
  /\ \E r \in IdleResults(idleCapable[a]) : idleRes' = [idleRes EXCEPT ![a] = r]
  /\ ipc' = [ipc EXCEPT ![a] = "done"]
  /\ UNCHANGED <<procVars, acctVars, connVars, mboxVars, fetchVars, wpc, mpc,
                 idleStop, updates, sends, reads, lastMessageCount, lastWait, alertVars>>

\* The server sends an unsolicited update while the connection idles; the
\* client library puts it in client.Updates (set at line 101).
ServerUpdate(a) ==
  /\ Alive /\ mpc[a] = "runIDLE" /\ ipc[a] = "running" /\ idleCapable[a]
  /\ updates[a] < MaxUpdates
  /\ updates' = [updates EXCEPT ![a] = @ + 1]
  /\ UNCHANGED <<procVars, acctVars, connVars, mboxVars, fetchVars, wpc, mpc, ipc,
                 idleRes, idleStop, sends, reads, lastMessageCount, lastWait, alertVars>>

\* runIDLE lines 116-118: the timer fires; closeIdleStop.
TimerFires(a) ==
  /\ Alive /\ mpc[a] = "runIDLE"
  /\ idleStop' = [idleStop EXCEPT ![a] = TRUE]
  /\ mpc' = [mpc EXCEPT ![a] = "drainTimeout"]
  /\ UNCHANGED <<procVars, acctVars, connVars, mboxVars, fetchVars, wpc, ipc, idleRes,
                 updates, sends, reads, lastMessageCount, lastWait, alertVars>>

\* runIDLE lines 122-124: an update is received; closeIdleStop.
RecvUpdate(a) ==
  /\ Alive /\ mpc[a] = "runIDLE" /\ updates[a] > 0
  /\ updates' = [updates EXCEPT ![a] = @ - 1]
  /\ idleStop' = [idleStop EXCEPT ![a] = TRUE]
  /\ mpc' = [mpc EXCEPT ![a] = "drainUpdate"]
  /\ UNCHANGED <<procVars, acctVars, connVars, mboxVars, fetchVars, wpc, ipc, idleRes,
                 sends, reads, lastMessageCount, lastWait, alertVars>>

\* runIDLE lines 133-139 and MonitorWithIDLE lines 68-81: Idle ended by
\* itself; error or not, the goroutine returns and closes its channel.
RecvIdleDone(a) ==
  /\ Alive /\ mpc[a] = "runIDLE" /\ ipc[a] = "done"
  /\ idleStop' = [idleStop EXCEPT ![a] = TRUE]
  /\ ipc' = [ipc EXCEPT ![a] = "joined"]
  /\ lastWait' = [lastWait EXCEPT ![a] = IF idleRes[a] = "err" THEN "idleErr" ELSE "idleEnd"]
  /\ mpc' = [mpc EXCEPT ![a] = "closed"]
  /\ UNCHANGED <<procVars, acctVars, connVars, mboxVars, fetchVars, wpc, idleRes,
                 updates, sends, reads, lastMessageCount, alertVars>>

\* runIDLE lines 119-120 and 125-128: <-idleDone after closeIdleStop.  After
\* a timeout runIDLE returns (false, nil) and MonitorWithIDLE returns, closing
\* its channel (lines 78-81); after an update runIDLE goes on to line 128.
IdleNotAwaited(i) == TRUE
IdleAwaited(i) == i = "done"

DrainIdleDone(a) ==
  /\ Alive /\ mpc[a] \in {"drainTimeout", "drainUpdate"} /\ IdleAwaited(ipc[a])
  /\ ipc' = [ipc EXCEPT ![a] = IF @ = "done" THEN "joined" ELSE @]
  /\ IF mpc[a] = "drainTimeout"
       THEN /\ mpc' = [mpc EXCEPT ![a] = "closed"]
            /\ lastWait' = [lastWait EXCEPT ![a] = "timeout"]
       ELSE /\ mpc' = [mpc EXCEPT ![a] = "send128"]
            /\ UNCHANGED lastWait
  /\ UNCHANGED <<procVars, acctVars, connVars, mboxVars, fetchVars, wpc, idleRes,
                 idleStop, updates, sends, reads, lastMessageCount, alertVars>>

\* idleMode line 266: the receive from MonitorWithIDLE's channel, either the
\* value sent at runIDLE line 128 (after which runIDLE returns (true, nil) and
\* MonitorWithIDLE sends again at line 77) or the close of the channel.
idleMode(a) ==
  /\ Alive /\ wpc[a] = "recvInner" /\ mpc[a] \in {"send128", "closed"}
  /\ IF mpc[a] = "send128"
       THEN /\ wpc' = [wpc EXCEPT ![a] = IdleModeAfterRecv(TRUE, TRUE)]
            /\ mpc' = [mpc EXCEPT ![a] = "send77"]
            /\ lastWait' = [lastWait EXCEPT ![a] = "update"]
       ELSE /\ wpc' = [wpc EXCEPT ![a] = IdleModeAfterRecv(FALSE, FALSE)]
            /\ UNCHANGED <<mpc, lastWait>>
  /\ UNCHANGED <<procVars, acctVars, connVars, mboxVars, fetchVars, ipc, idleRes,
                 idleStop, updates, sends, reads, lastMessageCount, alertVars>>

\* pollMode lines 284-292: the initial SelectFolder; its error is ignored
\* and lastMessageCount stays 0.
PollStart(a) ==
  /\ Alive /\ wpc[a] = "poll"
  /\ \E ok \in BOOLEAN :
       lastMessageCount' = [lastMessageCount EXCEPT ![a] = IF ok THEN msgCount[a] ELSE 0]
  /\ wpc' = [wpc EXCEPT ![a] = "pollTick"]
  /\ UNCHANGED <<procVars, acctVars, connVars, mboxVars, fetchVars, mpc, ipc, idleRes,
                 idleStop, updates, sends, reads, lastWait, alertVars>>

\* pollMode lines 294-306: one tick of the ticker.
PollTick(a) ==
  /\ Alive /\ wpc[a] = "pollTick"
  /\ \E ok \in BOOLEAN :
       IF ~ok
         THEN /\ wpc' = [wpc EXCEPT ![a] = "sendErr"]
              /\ lastWait' = [lastWait EXCEPT ![a] = "pollErr"]
         ELSE IF msgCount[a] # lastMessageCount[a]
           THEN /\ wpc' = [wpc EXCEPT ![a] = "sendNil"]
                /\ lastWait' = [lastWait EXCEPT ![a] = "pollChange"]
           ELSE UNCHANGED <<wpc, lastWait>>
  /\ UNCHANGED <<procVars, acctVars, connVars, mboxVars, fetchVars, mpc, ipc, idleRes,
                 idleStop, updates, sends, reads, lastMessageCount, alertVars>>

\* run() lines 192-198: the receive from monitor.UpdateCh.  The sender's
\* goroutine then returns and closes the channel (client.go:244).  A receive
\* from a channel closed without a send yields nil.
Recv(a) ==
  /\ Alive /\ pc[a] = "recv"
  /\ \/ wpc[a] \in {"sendErr", "sendNil"}
     \/ wpc[a] = "closed" /\ reads[a] = 0
  /\ reads' = [reads EXCEPT ![a] = @ + 1]
  /\ sends' = [sends EXCEPT ![a] = IF wpc[a] = "closed" THEN @ ELSE @ + 1]
  /\ wpc' = [wpc EXCEPT ![a] = "closed"]
  /\ IF wpc[a] = "sendErr"
       THEN /\ runErr' = [runErr EXCEPT ![a] = "wait"]
            /\ pc' = [pc EXCEPT ![a] = "Logout"]
            /\ UNCHANGED phase
       ELSE /\ phase' = [phase EXCEPT ![a] = 2]
            /\ pc' = [pc EXCEPT ![a] = "Fetch"]
            /\ UNCHANGED runErr
  /\ UNCHANGED <<procVars, retries, firstConnect, listCalls, connVars, mboxVars, fetchVars, mpc, ipc,
                 idleRes, idleStop, updates, lastMessageCount, lastWait, alertVars>>

\* ------------------------------------------------------- specifications
MainStep == LoadConfig \/ Start \/ Interrupt

MonitorStep(a) ==
  \/ Connect(a) \/ Login(a) \/ ListFolders(a) \/ Fetch(a) \/ Logout(a)
  \/ handleError(a) \/ AlertPushReturn(a) \/ Exit(a) \/ Sleep(a)

WaitStep(a) ==
  \/ IdleWithFallback(a) \/ MonitorWithIDLE(a) \/ IdleReturns(a) \/ ServerUpdate(a)
  \/ TimerFires(a) \/ RecvUpdate(a) \/ RecvIdleDone(a) \/ DrainIdleDone(a)
  \/ idleMode(a) \/ Recv(a)

MailStep(a) == NewMail(a) \/ ParseMessage(a) \/ PushMessage(a) \/ MarkAsRead(a)

PollStep(a) == PollStart(a) \/ PollTick(a)

\* One configured account (or none), with or without a delivery endpoint,
\* on a server with or without the IDLE command.
Init == InitWith({{}, {"a1"}}, {NoURL, URL}, BOOLEAN, {0}, {FetchLimit})
Next == MainStep \/ \E a \in Accounts : MonitorStep(a) \/ WaitStep(a) \/ MailStep(a)
Spec == Init /\ [][Next]_vars

\* Two configured accounts whose folders stay empty.
InitFleet == InitWith({{"a1", "a2"}}, {URL}, {TRUE}, {0}, {FetchLimit})
NextFleet == MainStep \/ \E a \in Accounts : MonitorStep(a) \/ WaitStep(a)
SpecFleet == InitFleet /\ [][NextFleet]_vars

\* The fleet with the scheduling the runtime guarantees for the fatal branch:
\* the alert Push returns (its HTTP client has a 30 s timeout, part_000:23-25)
\* and a goroutine that is at os.Exit runs.
FatalFairness == \A a \in Accounts : WF_vars(AlertPushReturn(a)) /\ WF_vars(Exit(a))
SpecFleetFair == InitFleet /\ [][NextFleet]_vars /\ FatalFairness

\* One account whose folder holds FetchLimit unread, well-formed messages
\* and can receive one more, while its delivery endpoint is down (PostForm
\* fails), so that nothing is ever marked read.
BacklogStep(a) ==
  \/ NewMailUpTo(a, FetchLimit + 1)
  \/ ParseMessageWith(a, {TRUE})
  \/ PushMessageWith(a, {"err"})
InitBacklog == InitWith({{"a1"}}, {URL}, {TRUE}, {FetchLimit}, {FetchLimit})
NextBacklog == MainStep \/ \E a \in Accounts : MonitorStep(a) \/ WaitStep(a) \/ BacklogStep(a)
SpecBacklog == InitBacklog /\ [][NextBacklog]_vars

\* IdleWithFallback as a function of the Client it is called on: every
\* configured account is at run() line 188 on a connected, logged-in Client
\* whose supportsIDLE flag has either value, with any folder content.
InitWait ==
  /\ mainPc = "sigWait"
  /\ exitCode = 0
  /\ exitBy = "none"
  /\ cfgAccounts = Accounts
  /\ sendPush = [a \in Accounts |-> URL]
  /\ idleCapable = [a \in Accounts |-> TRUE]
  /\ fetchLimit = FetchLimit
  /\ pc = [a \in Accounts |-> "IdleWithFallback"]
  /\ retries = [a \in Accounts |-> 0]
  /\ firstConnect = [a \in Accounts |-> FALSE]
  /\ listCalls = [a \in Accounts |-> 1]
  /\ runErr = [a \in Accounts |-> "none"]
  /\ phase = [a \in Accounts |-> 1]
  /\ conn = [a \in Accounts |-> "open"]
  /\ supportsIDLE \in [Accounts -> BOOLEAN]
  /\ openConns = [a \in Accounts |-> 1]
  /\ msgCount \in [Accounts -> 0..MaxMsgs]
  /\ seen = [a \in Accounts |-> {}]
  /\ batch = [a \in Accounts |-> <<>>]
  /\ pushRes = [a \in Accounts |-> <<FALSE, FALSE>>]
  /\ delivered = [a \in Accounts |-> {}]
  /\ marked = [a \in Accounts |-> {}]
  /\ opErr = [a \in Accounts |-> FALSE]
  /\ attempted = [a \in Accounts |-> {}]
  /\ pending = [a \in Accounts |-> {}]
  /\ wpc = [a \in Accounts |-> "none"]
  /\ mpc = [a \in Accounts |-> "none"]
  /\ ipc = [a \in Accounts |-> "none"]
  /\ idleRes = [a \in Accounts |-> "none"]
  /\ idleStop = [a \in Accounts |-> FALSE]
  /\ updates = [a \in Accounts |-> 0]
  /\ sends = [a \in Accounts |-> 0]
  /\ reads = [a \in Accounts |-> 0]
  /\ lastMessageCount = [a \in Accounts |-> 0]
  /\ lastWait = [a \in Accounts |-> "none"]
  /\ alertState = [a \in Accounts |-> "none"]
  /\ alertCalls = [a \in Accounts |-> 0]
NextWait == \E a \in Accounts : WaitStep(a) \/ PollStep(a) \/ NewMail(a)
SpecWait == InitWait /\ [][NextWait]_vars

\* FetchMessages as a function of its arguments: one account at the call of
\* receiver.go:204 (from line 185 or from line 198) on a logged-in
\* connection, with any folder content, any read flags and any limit from 1
\* to MaxLimit.
InitFetch ==
  /\ mainPc = "sigWait"
  /\ exitCode = 0
  /\ exitBy = "none"
  /\ cfgAccounts = {"a1"}
  /\ sendPush = [a \in Accounts |-> URL]
  /\ idleCapable = [a \in Accounts |-> TRUE]
  /\ fetchLimit \in 1..MaxLimit
  /\ pc = [a \in Accounts |-> IF a \in cfgAccounts THEN "Fetch" ELSE "off"]
  /\ retries = [a \in Accounts |-> 0]
  /\ firstConnect = [a \in Accounts |-> a \notin cfgAccounts]
  /\ listCalls = [a \in Accounts |-> IF a \in cfgAccounts THEN 1 ELSE 0]
  /\ runErr = [a \in Accounts |-> "none"]
  /\ \E ph \in {1, 2} : phase = [a \in Accounts |-> IF a \in cfgAccounts THEN ph ELSE 1]
  /\ conn = [a \in Accounts |-> IF a \in cfgAccounts THEN "open" ELSE "nil"]
  /\ supportsIDLE = [a \in Accounts |-> a \in cfgAccounts]
  /\ openConns = [a \in Accounts |-> IF a \in cfgAccounts THEN 1 ELSE 0]
  /\ \E n \in 0..MaxMsgs : \E s \in SUBSET (1..n) :
       /\ msgCount = [a \in Accounts |-> IF a \in cfgAccounts THEN n ELSE 0]
       /\ seen = [a \in Accounts |-> IF a \in cfgAccounts THEN s ELSE {}]
  /\ batch = [a \in Accounts |-> <<>>]
  /\ pushRes = [a \in Accounts |-> <<FALSE, FALSE>>]
  /\ delivered = [a \in Accounts |-> {}]
  /\ marked = [a \in Accounts |-> {}]
  /\ opErr = [a \in Accounts |-> FALSE]
  /\ attempted = [a \in Accounts |-> {}]
  /\ pending = [a \in Accounts |-> {}]
  /\ wpc = [a \in Accounts |-> "none"]
  /\ mpc = [a \in Accounts |-> "none"]
  /\ ipc = [a \in Accounts |-> "none"]
  /\ idleRes = [a \in Accounts |-> "none"]
  /\ idleStop = [a \in Accounts |-> FALSE]
  /\ updates = [a \in Accounts |-> 0]
  /\ sends = [a \in Accounts |-> 0]
  /\ reads = [a \in Accounts |-> 0]
  /\ lastMessageCount = [a \in Accounts |-> 0]
  /\ lastWait = [a \in Accounts |-> "none"]
  /\ alertState = [a \in Accounts |-> "none"]
  /\ alertCalls = [a \in Accounts |-> 0]
NextFetch == \E a \in Accounts : Fetch(a) \/ MailStep(a)
SpecFetch == InitFetch /\ [][NextFetch]_vars

\* =============================================================== claims

\* C1: in fetchAndProcessMessages a message is marked read (MarkAsRead is
\* issued for it) only if Push returned success for it earlier in the same
\* call; an error, a non-success response or an unattempted delivery never
\* leads to MarkAsRead.
C1_MarkedOnlyAfterSuccess ==
  \A a \in Accounts : marked[a] \subseteq delivered[a]

\* A batch in which one message was delivered and marked while another
\* one's delivery failed.
C1_Witness ==
  \E a \in Accounts : /\ marked[a] # {}
                      /\ opErr[a]
                      /\ 2 \notin delivered[a]
                      /\ msgCount[a] = 2 /\ seen[a] = {1}
                      /\ pc[a] \notin FetchPcs

\* C2: a clean timeout of the live wait (timer fired, no update) is handled
\* without changing the failure counter: from the timeout until the monitor
\* reconnects the counter keeps its value.
C2_CleanTimeoutKeepsCounter ==
  [][\A a \in Accounts : lastWait[a] = "timeout" => retries'[a] = retries[a]]_vars

\* C3: the failure counter goes up by exactly one on every connect error,
\* login error and wait error (each reaches handleError), is set to 0 by
\* every successful Login, and changes at no other step.
C3_CounterSteps ==
  [][\A a \in Accounts :
       /\ (pc[a] = "Connect" /\ pc'[a] \notin {"Connect", "Login"})
             => pc'[a] = "handleError" /\ runErr'[a] = "connect"
       /\ (pc[a] = "Login" /\ pc'[a] \notin {"Login", "ListFolders", "Fetch"})
             => pc'[a] = "Logout" /\ runErr'[a] = "login"
       /\ (pc[a] = "Logout" /\ pc'[a] # "Logout" /\ runErr[a] \in {"login", "wait"})
             => pc'[a] = "handleError"
       /\ (pc[a] = "handleError" /\ pc'[a] # "handleError")
             => retries'[a] = retries[a] + 1
       /\ (pc[a] = "Login" /\ pc'[a] \in {"ListFolders", "Fetch"}) => retries'[a] = 0
       /\ retries'[a] # retries[a]
             => \/ pc[a] = "handleError" /\ retries'[a] = retries[a] + 1
                   /\ runErr[a] \in {"connect", "login", "wait"}
                \/ pc[a] = "Login" /\ pc'[a] \in {"ListFolders", "Fetch"} /\ retries'[a] = 0
    ]_vars

\* The counter was raised by a failed wait and then by a failed login.
C3_Witness ==
  \E a \in Accounts : /\ retries[a] = 2 /\ runErr[a] = "login" /\ pc[a] = "Sleep"
                      /\ ~firstConnect[a]

\* C4 as stated: after a fetch/parse/delivery/mark-read failure inside
\* fetchAndProcessMessages the counter is unchanged and the monitor goes on
\* to wait-for-change on the same connection.
C4_ErrorThenWaitOnSameConnection ==
  [][\A a \in Accounts :
       (pc[a] \in FetchPcs /\ pc'[a] \notin FetchPcs /\ opErr'[a])
          => /\ retries'[a] = retries[a]
             /\ pc'[a] = "IdleWithFallback"
             /\ conn'[a] = "open"
    ]_vars

\* C4 amended: no step of fetchAndProcessMessages changes the counter, sets
\* an error for run() to return, starts an alert or touches the connection;
\* the call ends where an error-free call ends: at IdleWithFallback on the
\* same connection after the first call of a cycle, at the deferred Logout
\* with a nil return (so no handleError, no sleep) after the call that
\* follows a signal.
C4_ErrorsAbsorbed ==
  [][\A a \in Accounts :
       /\ pc[a] \in FetchPcs
            => /\ retries'[a] = retries[a]
               /\ runErr'[a] = "none"
               /\ alertState'[a] = "none"
               /\ conn'[a] = "open" /\ conn[a] = "open"
               /\ pc'[a] \in FetchPcs \cup
                    {IF phase[a] = 1 THEN "IdleWithFallback" ELSE "Logout"}
       /\ (pc[a] = "Logout" /\ pc'[a] # "Logout" /\ runErr[a] = "none")
            => pc'[a] = "Connect" /\ retries'[a] = retries[a]
    ]_vars

\* A call that met an error has ended and the monitor is about to wait on
\* the connection it fetched on.
C4_Witness ==
  \E a \in Accounts : /\ opErr[a] /\ pc[a] = "IdleWithFallback"
                      /\ conn[a] = "open" /\ retries[a] = 0

\* C5: an account whose counter reaches MaxRetries makes exactly one alert
\* Push, is then only in the alert call or at os.Exit(1) (never at Connect or
\* in the backoff sleep again), and a process ended by it has exit code 1.
\* Once the counter is at MaxRetries the process ends.
C5_OneAlertThenExit ==
  /\ [](\A a \in Accounts :
         /\ retries[a] <= MaxRetries
         /\ alertCalls[a] = (IF retries[a] >= MaxRetries THEN 1 ELSE 0)
         /\ retries[a] >= MaxRetries => pc[a] \in {"alertPush", "osExit"}
         /\ exitBy = a => exitCode = 1 /\ alertCalls[a] = 1 /\ retries[a] = MaxRetries)
  /\ \A a \in Accounts : (retries[a] >= MaxRetries) ~> ~Alive

\* The process was ended by a1, which never got connected and logged in:
\* its failures were consecutive and the last one was a connect failure.
C5_Witness ==
  /\ exitBy = "a1" /\ exitCode = 1
  /\ firstConnect["a1"] /\ conn["a1"] = "nil" /\ runErr["a1"] = "connect"
  /\ alertCalls["a1"] = 1 /\ alertState["a1"] = "returned"

\* C6: the process ends only by a configuration/startup failure (code 1), an
\* interrupt (code 0), or an account in handleError whose counter equals
\* MaxRetries (code 1); the alert/exit branch of handleError is entered only
\* with the counter at MaxRetries.
C6_FatalOnlyAtMax ==
  /\ \A a \in Accounts : pc[a] \in {"alertPush", "osExit"} => retries[a] = MaxRetries
  /\ ~Alive =>
       \/ exitCode = 0 /\ exitBy = "signal"
       \/ exitCode = 1 /\ exitBy \in {"config", "start"}
       \/ exitCode = 1 /\ exitBy \in Accounts /\ retries[exitBy] = MaxRetries
                       /\ pc[exitBy] = "osExit"

\* The process was ended with code 1 by a2 while a1 is below its limit.
C6_Witness ==
  /\ exitCode = 1 /\ exitBy = "a2" /\ retries["a2"] = MaxRetries
  /\ retries["a1"] < MaxRetries /\ pc["a1"] = "recv"

\* C7: when an account ends the process, its alert Push has returned.
C7_ExitAfterAlertReturned ==
  \A a \in Accounts : (exitBy = a \/ pc[a] = "osExit") => alertState[a] = "returned"

\* a1 ended the process after its alert returned, while a2's alert call was
\* still in flight.
C7_Witness ==
  /\ exitBy = "a1" /\ alertState["a1"] = "returned"
  /\ alertState["a2"] = "inflight"

\* C8: every IdleWithFallback call sends exactly one value on its channel
\* and then closes it, in idle mode and in poll mode, and run() receives
\* from the channel exactly once.
C8_OneOutcomeThenClose ==
  \A a \in Accounts :
    /\ sends[a] <= 1 /\ reads[a] <= 1
    /\ sends[a] = reads[a]
    /\ wpc[a] = "closed" <=> sends[a] = 1
    /\ pc[a] \in {"Fetch", "Logout"} <=> reads[a] = 1

\* One call ended by the idle timer and one by a changed count in poll mode;
\* both channels are closed and were read.
C8_Witness ==
  /\ wpc["a1"] = "closed" /\ lastWait["a1"] = "timeout" /\ reads["a1"] = 1
  /\ wpc["a2"] = "closed" /\ lastWait["a2"] = "pollChange" /\ reads["a2"] = 1

\* C9 as stated: the fetch-and-deliver that follows a change signal is
\* followed by the next wait-for-change on the same connection.
C9_SignalLoopsWithoutReconnect ==
  [][\A a \in Accounts :
       (phase[a] = 2 /\ pc[a] \in FetchPcs /\ pc'[a] \notin FetchPcs)
          => pc'[a] = "IdleWithFallback" /\ conn'[a] = "open"
    ]_vars

\* C9 amended: a signal leads to one fetch-and-deliver on the same
\* connection; when that call ends run() returns nil through the deferred
\* Logout and the monitor reconnects with the counter unchanged and no sleep;
\* an error outcome of the wait goes through Logout to handleError, and the
\* backoff sleep is entered from handleError only.
C9_SignalFetchThenReconnect ==
  [][\A a \in Accounts :
       /\ (pc[a] = "recv" /\ pc'[a] # "recv")
            => IF wpc[a] = "sendErr"
                 THEN pc'[a] = "Logout" /\ runErr'[a] = "wait"
                 ELSE /\ pc'[a] = "Fetch" /\ phase'[a] = 2
                      /\ conn'[a] = "open" /\ conn[a] = "open" /\ runErr'[a] = "none"
       /\ (phase[a] = 2 /\ pc[a] \in FetchPcs /\ pc'[a] \notin FetchPcs)
            => /\ pc'[a] = "Logout" /\ runErr'[a] = "none"
               /\ conn'[a] = "open" /\ retries'[a] = retries[a]
       /\ (pc[a] = "Logout" /\ pc'[a] # "Logout")
            => /\ conn'[a] = "closed" /\ retries'[a] = retries[a]
               /\ pc'[a] = (IF runErr[a] = "none" THEN "Connect" ELSE "handleError")
       /\ (pc'[a] = "Sleep" /\ pc[a] # "Sleep") => pc[a] = "handleError"
    ]_vars

\* After a signal and the fetch-and-deliver that followed it, the monitor is
\* at the deferred Logout with nothing to report.
C9_Witness ==
  \E a \in Accounts : /\ phase[a] = 2 /\ pc[a] = "Logout" /\ runErr[a] = "none"
                      /\ lastWait[a] = "update" /\ conn[a] = "open"

\* C10: an account never has more than one connection that was dialled and
\* not logged out, and has none whenever it is about to Connect, handles an
\* error, sleeps, or is in the fatal branch.
C10_OneLiveConnection ==
  \A a \in Accounts :
    /\ openConns[a] <= 1
    /\ openConns[a] = (IF conn[a] = "open" THEN 1 ELSE 0)
    /\ pc[a] \in {"Connect", "handleError", "Sleep", "alertPush", "osExit"}
          => openConns[a] = 0

\* A cycle that failed at Login released its connection and the monitor is
\* about to Connect again.
C10_Witness ==
  \E a \in Accounts : /\ pc[a] = "Connect" /\ conn[a] = "closed"
                      /\ runErr[a] = "login" /\ retries[a] > 0

\* C11: a message whose delivery failed (error or non-success response), and
\* which therefore stays unread, is in the batch of the account's next
\* successful fetch, and so is delivered again in that cycle, however many
\* unread messages the folder holds and whatever arrived in between.
C11_FailedRetriedNextCycle ==
  [][\A a \in Accounts :
       (pc[a] = "Fetch" /\ pc'[a] # "Fetch" /\ ~opErr'[a])
         => \A m \in pending[a] : \E i \in DOMAIN batch'[a] : batch'[a][i] = m]_vars

\* C12: one message's failure never stops the rest of the batch.  The batch
\* is in arrival order; every step of fetchAndProcessMessages keeps the batch
\* or drops exactly its head, whatever the outcome of the step; a delivery is
\* attempted for a message at most once per call; the call ends only with
\* the batch used up.  When a call on 2 unread messages ends with delivery
\* succeeded for message 1 and failed for message 2, exactly message 1 was
\* marked, message 2 is unread, and the account has not ended the process.
C12_NoPartialBatchAbort ==
  /\ [](\A a \in Accounts :
         /\ \A i, j \in DOMAIN batch[a] : i < j => batch[a][i] < batch[a][j]
         /\ pc[a] \in {"Parse", "Push", "MarkAsRead"} => batch[a] # <<>>
         /\ (/\ pc[a] \in {"IdleWithFallback", "Logout"}
             /\ attempted[a] = {1, 2} /\ delivered[a] = {1} /\ pending[a] = {2})
              => marked[a] = {1} /\ 2 \notin seen[a] /\ exitBy # a)
  /\ [][\A a \in Accounts :
         pc[a] \in {"Parse", "Push", "MarkAsRead"} =>
           /\ batch'[a] = batch[a] \/ batch'[a] = Tail(batch[a])
           /\ pc'[a] \notin {"Parse", "Push", "MarkAsRead"} => batch'[a] = <<>>
           /\ (pc'[a] = "Parse" /\ pc[a] # "Parse") => batch'[a] = Tail(batch[a])
           /\ pc[a] = "Push" => Head(batch[a]) \notin attempted[a]]_vars

C12_Witness ==
  \E a \in Accounts :
    /\ Alive /\ pc[a] = "IdleWithFallback" /\ batch[a] = <<>>
    /\ msgCount[a] = 2 /\ attempted[a] = {1, 2}
    /\ delivered[a] = {1} /\ marked[a] = {1} /\ seen[a] = {1} /\ pending[a] = {2}

\* C13: the whole batch is done before the next wait begins.  While run() is
\* at or inside IdleWithFallback, or past it, no fetched message is left to
\* process; and no delivery attempt or mark-read call happens while a wait
\* of the account is under way.
C13_BatchBeforeWait ==
  /\ [](\A a \in Accounts :
         /\ pc[a] \notin FetchPcs => batch[a] = <<>>
         /\ pc[a] \in {"Parse", "Push", "MarkAsRead"} => wpc[a] \in {"none", "closed"})
  /\ [][\A a \in Accounts :
         (attempted'[a] # attempted[a] \/ marked'[a] # marked[a])
           => pc[a] \in FetchPcs /\ pc[a] # "recv" /\ wpc[a] \in {"none", "closed"}]_vars

C13_Witness ==
  \E a \in Accounts :
    /\ Alive /\ pc[a] = "recv" /\ wpc[a] = "recvInner" /\ batch[a] = <<>>
    /\ attempted[a] = {1, 2} /\ marked[a] = {1, 2}

\* C14: an account never has two protocol operations in flight.  Of the
\* monitor goroutine at Connect, Login, ListFolders, FetchMessages,
\* MarkAsRead or Logout, the MonitorWithIDLE goroutine at its Select, the
\* goroutine inside Idle and the pollMode goroutine at its Select, at most
\* one exists at a time.  While runIDLE selects, the Idle call has been
\* started exactly once and is not yet collected, and the monitor and
\* idleMode goroutines are both blocked in a channel receive; runIDLE leaves
\* its select only through the timer, an update, or the return of Idle.
C14_OneOperationInFlight ==
  /\ [](\A a \in Accounts :
         LET ops == {"Connect", "Login", "ListFolders", "Fetch", "MarkAsRead", "Logout"}
             inFlight == {g \in {"monitor", "select", "idle", "poll"} :
                            \/ g = "monitor" /\ pc[a] \in ops
                            \/ g = "select" /\ mpc[a] = "Select"
                            \/ g = "idle" /\ ipc[a] = "running"
                            \/ g = "poll" /\ wpc[a] \in {"poll", "pollTick"}}
         IN /\ \A g, h \in inFlight : g = h
            /\ mpc[a] = "runIDLE"
                 => ipc[a] \in {"running", "done"} /\ pc[a] = "recv" /\ wpc[a] = "recvInner")
  /\ [][\A a \in Accounts :
         (mpc[a] = "runIDLE" /\ mpc'[a] # "runIDLE")
           => \/ mpc'[a] = "drainTimeout" /\ idleStop'[a] /\ updates'[a] = updates[a]
              \/ mpc'[a] = "drainUpdate" /\ idleStop'[a] /\ updates[a] > 0
              \/ mpc'[a] = "closed" /\ ipc[a] = "done"]_vars

C14_Witness ==
  \E a \in Accounts :
    /\ Alive /\ pc[a] = "Fetch" /\ phase[a] = 2
    /\ mpc[a] = "send77" /\ ipc[a] = "joined" /\ wpc[a] = "closed"

\* C15: on a connection to a server without the IDLE command the wait is
\* done by pollMode: the long-poll is not issued (no MonitorWithIDLE
\* goroutine, no Idle call) and the outcome of the wait is a changed count
\* or a polling error, never the end of an IDLE.
C15_PollsWithoutIdleSupport ==
  \A a \in Accounts :
    (~idleCapable[a] /\ pc[a] = "recv")
      => /\ mpc[a] = "none" /\ ipc[a] = "none"
         /\ wpc[a] \in {"poll", "pollTick", "sendErr", "sendNil", "closed"}
         /\ lastWait[a] \in {"none", "pollChange", "pollErr"}

\* C16: for an account with an empty delivery endpoint every Push returns
\* (false, nil), MarkAsRead is never called and no message of the account
\* ever gets the read flag, over any number of fetch cycles.
C16_EmptyEndpointNeverMarks ==
  \A a \in Accounts :
    sendPush[a] = NoURL
      => /\ pushRes[a] = <<FALSE, FALSE>>
         /\ pc[a] # "MarkAsRead"
         /\ delivered[a] = {} /\ marked[a] = {} /\ seen[a] = {} /\ pending[a] = {}

C16_Witness ==
  \E a \in Accounts :
    /\ sendPush[a] = NoURL /\ Alive
    /\ phase[a] = 2 /\ pc[a] = "Logout" /\ attempted[a] = {1, 2} /\ seen[a] = {}

\* C17: once run() has received the outcome of an IdleWithFallback call, no
\* goroutine of that call is left: the IdleWithFallback and MonitorWithIDLE
\* goroutines have returned and the Idle goroutine has been collected.
C17_NoGoroutineLeftAfterWait ==
  \A a \in Accounts :
    (reads[a] = 1 /\ pc[a] # "recv")
      => /\ wpc[a] = "closed"
         /\ mpc[a] \in {"none", "closed"}
         /\ ipc[a] \in {"none", "joined"}

\* C18: after a connect, login or wait error that leaves the counter below
\* MaxRetries, handleError goes into its backoff sleep, and the sleep is
\* followed directly by Connect with the counter as handleError left it.
\* Connect is entered only at the start, from the end of that sleep, or from
\* the Logout of a run() that returned no error: never between an error and
\* the end of its sleep.
C18_OneBackoffThenConnect ==
  [][\A a \in Accounts :
       /\ (pc[a] = "handleError" /\ pc'[a] # "handleError")
            => /\ retries'[a] = retries[a] + 1
               /\ runErr[a] \in {"connect", "login", "wait"}
               /\ retries'[a] < MaxRetries => pc'[a] = "Sleep"
       /\ (pc[a] = "Sleep" /\ pc'[a] # "Sleep")
            => pc'[a] = "Connect" /\ retries'[a] = retries[a]
       /\ (pc'[a] = "Connect" /\ pc[a] # "Connect")
            => \/ pc[a] = "off"
               \/ pc[a] = "Sleep"
               \/ pc[a] = "Logout" /\ runErr[a] = "none"
       /\ (runErr'[a] # "none" /\ pc'[a] # pc[a])
            => pc'[a] \in {"Logout", "handleError", "alertPush", "osExit", "Sleep", "Connect"}]_vars

C18_Witness ==
  \E a \in Accounts :
    Alive /\ pc[a] = "Sleep" /\ retries[a] = 1 /\ runErr[a] = "wait" /\ lastWait[a] = "idleErr"

\* C19: a Push that returned success is followed at once by one MarkAsRead
\* call for the same message, before the loop moves on; whether that call
\* succeeds or fails, the loop then goes on with the rest of the batch and
\* neither the failure counter nor the result of run() changes.
C19_MarkRightAfterSuccess ==
  /\ [](\A a \in Accounts :
         /\ pc[a] # "MarkAsRead" => delivered[a] = marked[a]
         /\ pc[a] = "MarkAsRead"
              => /\ batch[a] # <<>>
                 /\ Head(batch[a]) \notin marked[a]
                 /\ delivered[a] = marked[a] \cup {Head(batch[a])})
  /\ [][\A a \in Accounts :
         /\ (pc[a] = "Push" /\ delivered'[a] # delivered[a])
              => /\ pc'[a] = "MarkAsRead" /\ batch'[a] = batch[a]
                 /\ delivered'[a] = delivered[a] \cup {Head(batch[a])}
         /\ (pc[a] = "MarkAsRead" /\ pc'[a] # "MarkAsRead")
              => /\ marked'[a] = marked[a] \cup {Head(batch[a])}
                 /\ batch'[a] = Tail(batch[a])
                 /\ pc'[a] = (IF Len(batch[a]) > 1 THEN "Parse" ELSE AfterFetch(phase[a]))
                 /\ retries'[a] = retries[a] /\ runErr'[a] = runErr[a]]_vars

C19_Witness ==
  \E a \in Accounts :
    /\ Alive /\ marked[a] = {1} /\ 1 \notin seen[a] /\ opErr[a]
    /\ attempted[a] = {1, 2} /\ batch[a] = <<>>

\* C20: ListFolders is called at most once per account in the life of the
\* process, right after the first successful Login; whether it fails or
\* not, the failure counter and the result of run() stay as they are, no
\* backoff is taken and run() goes on to fetchAndProcessMessages.
C20_ListFoldersOnce ==
  /\ [](\A a \in Accounts :
         /\ listCalls[a] <= 1
         /\ firstConnect[a] <=> listCalls[a] = 0
         /\ pc[a] = "ListFolders"
              => firstConnect[a] /\ retries[a] = 0 /\ conn[a] = "open" /\ runErr[a] = "none")
  /\ [][\A a \in Accounts :
         /\ (pc'[a] = "ListFolders" /\ pc[a] # "ListFolders") => pc[a] = "Login"
         /\ listCalls'[a] # listCalls[a] => pc[a] = "ListFolders"
         /\ (pc[a] = "ListFolders" /\ pc'[a] # "ListFolders")
              => /\ pc'[a] = "Fetch"
                 /\ listCalls'[a] = listCalls[a] + 1
                 /\ retries'[a] = retries[a] /\ runErr'[a] = runErr[a]
                 /\ conn'[a] = conn[a]]_vars

C20_Witness ==
  \E a \in Accounts :
    /\ Alive /\ pc[a] = "Fetch" /\ wpc[a] = "none" /\ opErr[a]
    /\ ~firstConnect[a] /\ listCalls[a] = 1 /\ retries[a] = 0

\* C21: for every folder content and every limit L > 0, FetchMessages
\* returns at most L messages, all of them in the folder and without the
\* read flag, in sequence order, whether the unread Search works or fails
\* and the most-recent-L range is filtered instead; a failed Search alone
\* gives no error.  The batch a Fetch step leaves is such a result.
C21_FetchAtMostLimitUnread ==
  /\ [](\A a \in Accounts : \A selOK \in BOOLEAN, searchOK \in BOOLEAN, fetchOK \in BOOLEAN :
         LET r == FetchMessages(msgCount[a], seen[a], fetchLimit, selOK, searchOK, fetchOK)
         IN /\ Len(r.msgs) <= fetchLimit
            /\ \A i \in DOMAIN r.msgs :
                 r.msgs[i] \in 1..msgCount[a] /\ r.msgs[i] \notin seen[a]
            /\ \A i, j \in DOMAIN r.msgs : i < j => r.msgs[i] < r.msgs[j]
            /\ (selOK /\ fetchOK) => ~r.err
            /\ r.err => r.msgs = <<>>)
  /\ [][\A a \in Accounts :
         (pc[a] = "Fetch" /\ pc'[a] # "Fetch")
           => /\ Len(batch'[a]) <= fetchLimit
              /\ \A i \in DOMAIN batch'[a] :
                   batch'[a][i] \in 1..msgCount[a] /\ batch'[a][i] \notin seen[a]
              /\ seen'[a] = seen[a]]_vars

C21_Witness ==
  \E a \in Accounts :
    /\ pc[a] = "Parse" /\ attempted[a] = {} /\ ~opErr[a]
    /\ fetchLimit = 1 /\ msgCount[a] = 2 /\ seen[a] = {} /\ batch[a] = <<2>>

\* C22: the process as a whole makes at most one alert Push before it ends:
\* no two accounts have both called the alert Push of handleError.
C22_OneAlertPerProcess ==
  \A a, b \in Accounts :
    (alertCalls[a] > 0 /\ alertCalls[b] > 0) => a = b

\* C23: the counter is the number of failures since the last successful
\* Login.  Every successful Login sets it to 0 and only handleError raises
\* it, by one; a failed wait happens on a logged-in connection and so brings
\* it from 0 to 1 only.  While the counter is above 1 the account is not
\* logged in (it is connecting, logging in, or handling a connect or login
\* failure), and the fatal branch is entered only on such a failure.
C23_FatalNeedsConsecutiveFailures ==
  /\ [](\A a \in Accounts :
         /\ (pc[a] = "handleError" /\ runErr[a] = "wait") => retries[a] = 0
         /\ (runErr[a] = "wait" /\ pc[a] \in {"Sleep", "alertPush", "osExit"})
              => retries[a] = 1 /\ pc[a] = "Sleep"
         /\ retries[a] > 1
              => /\ pc[a] \in {"Connect", "Login", "Logout", "handleError",
                               "Sleep", "alertPush", "osExit"}
                 /\ pc[a] \notin {"Connect", "Login"} => runErr[a] \in {"connect", "login"}
         /\ pc[a] \in {"alertPush", "osExit"}
              => retries[a] = MaxRetries /\ runErr[a] \in {"connect", "login"})
  /\ [][\A a \in Accounts :
         /\ (pc[a] = "Login" /\ pc'[a] \in {"ListFolders", "Fetch"}) => retries'[a] = 0
         /\ retries'[a] > retries[a]
              => pc[a] = "handleError" /\ retries'[a] = retries[a] + 1
         /\ retries'[a] < retries[a] => pc[a] = "Login"]_vars

C23_Witness ==
  \E a \in Accounts :
    /\ Alive /\ pc[a] = "Fetch" /\ phase[a] = 1 /\ retries[a] = 0 /\ conn[a] = "open"
    /\ wpc[a] = "closed" /\ mpc[a] = "closed" /\ reads[a] = 1 /\ sends[a] = 1

\* C24: a connection serves at most one IdleWithFallback call.  The wait is
\* entered only from the first fetchAndProcessMessages after a Login; once
\* its outcome is received the account does not wait again until a Login on
\* a newly dialled connection, which follows the Logout of the old one.
\* After a signal the Logout leads straight to Connect, with the counter
\* unchanged.
C24_OneWaitPerConnection ==
  /\ [](\A a \in Accounts :
         /\ pc[a] \in {"IdleWithFallback", "recv"} => phase[a] = 1 /\ conn[a] = "open"
         /\ phase[a] = 2 => pc[a] \notin {"IdleWithFallback", "recv", "ListFolders"})
  /\ [][\A a \in Accounts :
         /\ (pc'[a] = "IdleWithFallback" /\ pc[a] # "IdleWithFallback")
              => pc[a] \in FetchPcs /\ phase[a] = 1
         /\ (pc[a] = "recv" /\ pc'[a] # "recv")
              => pc'[a] = "Logout" \/ (pc'[a] = "Fetch" /\ phase'[a] = 2)
         /\ (phase[a] = 2 /\ phase'[a] # 2) => pc[a] = "Login"
         /\ (pc'[a] = "Login" /\ pc[a] # "Login")
              => pc[a] = "Connect" /\ conn[a] # "open" /\ conn'[a] = "open"
         /\ (phase[a] = 2 /\ pc[a] = "Logout" /\ runErr[a] = "none" /\ pc'[a] # "Logout")
              => pc'[a] = "Connect" /\ retries'[a] = retries[a] /\ conn'[a] = "closed"]_vars

C24_Witness ==
  \E a \in Accounts :
    /\ Alive /\ pc[a] = "Login" /\ phase[a] = 2 /\ retries[a] = 0 /\ runErr[a] = "none"
    /\ mpc[a] = "send77" /\ conn[a] = "open" /\ openConns[a] = 1

\* C25: the failure counter of every account stays within 0..MaxRetries, and
\* it is strictly below MaxRetries whenever the account is about to Connect
\* or is in its backoff sleep.
C25_CounterRange ==
  \A a \in Accounts :
    /\ retries[a] \in 0..MaxRetries
    /\ pc[a] \in {"Connect", "Sleep"} => retries[a] < MaxRetries

C25_Witness ==
  \E a \in Accounts :
    /\ Alive /\ pc[a] = "Sleep" /\ retries[a] = MaxRetries - 1
    /\ runErr[a] = "login" /\ conn[a] = "closed"


====
